---- MODULE Spec2Model ----
(***************************************************************************)
(* Model of src/backtest/simulator.py: run_simulation, the bar-by-bar      *)
(* long-only single-position backtest loop, with its cost model, sizing,   *)
(* exit-priority chain and trade / equity recording; and of the metrics    *)
(* step that run_backtest_job (src/orchestration/runner_backtest.py) runs  *)
(* on the frames run_simulation returns (src/backtest/metrics.py).         *)
(*                                                                         *)
(* Python floats are modelled as exact rationals <<n, d>> (d > 0, lowest   *)
(* terms); every non-finite float (nan, inf) is the single value NaN.      *)
(***************************************************************************)
EXTENDS Integers, Sequences, FiniteSets, TLC

VARIABLES
    pc,                  \* "check" | "loop" | "body" | "done" | "raised"
                         \* | "job_done" | "job_raised"
                         \* | "call" | "returned"
    mode,                \* which family of input frames is explored
    columns,             \* set(df_4h.columns)
    initial_cash, risk_pct, cost_rate, max_hold_bars,
    ts, row,             \* the loop variables of df_4h.iterrows()
    index,               \* index of df_4h over the rows iterated so far
    cash, equity,
    in_position, units, entry_time, entry_price_filled, stop_price_state,
    risk_per_unit_state, bars_held, remaining_units, partial_taken,
    tp1_price, realized_pnl_usd, regime,
    trades, equity_records,
    trade_metrics,       \* trade_metrics of run_backtest_job
    call_args,           \* the arguments of a feature function under call
    call_result,         \* what that call returned
    ohlcv_csv            \* the ohlcv.csv file of the stored series

cfgvars == <<mode, columns, initial_cash, risk_pct, cost_rate, max_hold_bars>>
posvars == <<in_position, units, entry_time, entry_price_filled,
             stop_price_state, risk_per_unit_state, bars_held,
             remaining_units, partial_taken, tp1_price, realized_pnl_usd,
             regime>>
callvars == <<call_args, call_result, ohlcv_csv>>
vars == <<pc, cfgvars, ts, row, index, cash, equity, posvars, trades,
          equity_records, trade_metrics, callvars>>

----------------------------------------------------------------------------
(* Bounds of the exploration.                                              *)

\* rows of the frame in the wide-input exploration
MaxBars == 4
\* rows of the frame in the long-hold exploration
MaxBarsLong == 12
\* days of daily candles in the exploration of the trend feature
MaxDays == 4
\* 4H bars per day in the exploration of the trend feature
BarsPerDay == 2
\* timestamps of the OHLCV frames in the exploration of the data layer
MaxStamp == 3
\* rows of the frames handed to validate_ohlcv and to add_entry_signals
MaxRows == 2

----------------------------------------------------------------------------
(* Float arithmetic.                                                       *)

NaN == <<0, 0>>

RECURSIVE GCD(_, _)
GCD(a, b) == IF b = 0 THEN a ELSE GCD(b, a % b)

Abs(a) == IF a < 0 THEN -a ELSE a

Norm(n, d) ==
    IF d = 0 THEN NaN
    ELSE LET s == IF d < 0 THEN -1 ELSE 1
             g == GCD(Abs(n), Abs(d))
         IN  <<(s * n) \div g, (s * d) \div g>>

R(n) == <<n, 1>>
Q(n, d) == Norm(n, d)

isfinite(x) == x[2] # 0

RAdd(x, y) ==
    IF ~isfinite(x) \/ ~isfinite(y) THEN NaN
    ELSE LET g == GCD(x[2], y[2])
         IN  Norm(x[1] * (y[2] \div g) + y[1] * (x[2] \div g),
                  (x[2] \div g) * y[2])

RNeg(x) == IF isfinite(x) THEN <<-x[1], x[2]>> ELSE NaN

RSub(x, y) == RAdd(x, RNeg(y))

RMul(x, y) ==
    IF ~isfinite(x) \/ ~isfinite(y) THEN NaN
    ELSE LET g1 == GCD(Abs(x[1]), y[2])
             g2 == GCD(Abs(y[1]), x[2])
         IN  Norm((x[1] \div g1) * (y[1] \div g2),
                  (x[2] \div g2) * (y[2] \div g1))

\* x / y; the callers guard y > 0 (a zero float divisor raises in Python)
RDiv(x, y) ==
    IF ~isfinite(x) \/ ~isfinite(y) \/ y[1] = 0 THEN NaN
    ELSE RMul(x, Norm(y[2], y[1]))

\* comparisons with a NaN operand are False, as for floats
RLe(x, y) ==
    /\ isfinite(x) /\ isfinite(y)
    /\ LET g == GCD(x[2], y[2])
       IN  x[1] * (y[2] \div g) <= y[1] * (x[2] \div g)

RLt(x, y) == isfinite(x) /\ isfinite(y) /\ RLe(x, y) /\ x # y

RGe(x, y) == RLe(y, x)

\* Python's min(a, b): b if b < a else a
min(a, b) == IF RLt(b, a) THEN b ELSE a

\* Python's max(a, b): b if b > a else a
max(a, b) == IF RLt(a, b) THEN b ELSE a

\* float(v) if np.isfinite(v) else np.nan
to_float(v) == IF isfinite(v) THEN v ELSE NaN

----------------------------------------------------------------------------
(* Cost / fill model.                                                      *)

apply_buy_cost(price, rate) == RMul(price, RAdd(R(1), rate))

apply_sell_cost(price, rate) == RMul(price, RSub(R(1), rate))

----------------------------------------------------------------------------
(* Input frames.                                                           *)

required_columns_short ==
    {"high", "low", "close", "entry_long", "entry_price", "stop_price",
     "risk_per_unit", "can_trade", "risk_multiplier", "ema_fast_4h"}

required_columns ==
    {"high", "low", "close", "entry_long", "entry_price", "stop_price",
     "risk_per_unit", "can_trade", "risk_multiplier", "ema_fast_4h",
     "vol_regime"}

\* the frame either has every required column or lacks exactly one
ColumnSets == {required_columns} \cup
              {required_columns \ {c} : c \in required_columns}

\* entry_time = None
NoTime == 0

Row(hi, lo, cl, el, ep, sp, rpu, ct, rm, ema, vr) ==
    [high |-> hi, low |-> lo, close |-> cl, entry_long |-> el,
     entry_price |-> ep, stop_price |-> sp, risk_per_unit |-> rpu,
     can_trade |-> ct, risk_multiplier |-> rm, ema_fast_4h |-> ema,
     vol_regime |-> vr]

NoRow == Row(NaN, NaN, NaN, FALSE, NaN, NaN, NaN, FALSE, NaN, NaN, "")

\* entry candidates on a quiet candle: every combination of valid and
\* anomalous price, per-unit risk and multiplier
AnomalyRows ==
    {Row(R(101), R(99), R(100), TRUE, ep, R(95), rpu, TRUE, rm, NaN,
         "TRADE_OK") :
        ep \in {NaN, R(0), R(100)}, rpu \in {NaN, R(0), R(2)},
        rm \in {NaN, R(0), R(1)}}

\* well-formed entry candidates on a quiet candle: with and without a stop,
\* risk-capped and cash-capped, in either regime
EntryRows ==
    {Row(R(101), R(99), R(100), TRUE, R(100), sp, R(2), TRUE, rm, NaN, vr) :
        sp \in {NaN, R(95)}, rm \in {R(1), R(3)},
        vr \in {"HIGH_VOL", "TRADE_OK"}}

\* every combination of the fields an open position reads, on a row that
\* also carries a well-formed entry signal
ExitRows ==
    {Row(hi, lo, cl, TRUE, R(100), R(95), R(2), ct, R(1), ema, "TRADE_OK") :
        hi \in {NaN, R(101), R(103)}, lo \in {NaN, R(94), R(99)},
        cl \in {NaN, R(100)}, ct \in BOOLEAN,
        ema \in {NaN, R(93), R(100)}}

\* rows without an entry signal
QuietRows ==
    {Row(R(101), R(99), R(100), FALSE, NaN, NaN, NaN, ct, R(0), R(100),
         "LOW_VOL") : ct \in BOOLEAN}

Rows == AnomalyRows \cup EntryRows \cup ExitRows \cup QuietRows

\* the long-hold frames: well-formed entries in either regime and candles
\* that touch neither the stop nor the take-profit trigger
LongRows ==
    {Row(R(101), R(99), R(100), el, R(100), R(95), R(2), ct, R(1), NaN, vr) :
        el \in BOOLEAN, ct \in BOOLEAN, vr \in {"HIGH_VOL", "TRADE_OK"}}

RowsOf(m) == IF m = "long" THEN LongRows ELSE Rows

BarsOf(m) == IF m = "long" THEN MaxBarsLong ELSE MaxBars

----------------------------------------------------------------------------
(* run_simulation: the pieces of the loop body.                            *)

tp1_fraction_quarter == Q(1, 4)

tp1_fraction == Q(1, 2)

\* the hold limit of a non-HIGH_VOL position
DefaultHoldBars == 10

\* "Basic validity checks" of an entry candidate
entry_invalid(raw_entry, rpu, rm) ==
    \/ ~isfinite(raw_entry)
    \/ ~isfinite(rpu)
    \/ RLe(rpu, R(0))
    \/ RLe(rm, R(0))

fill_invalid(filled_entry) ==
    ~isfinite(filled_entry) \/ RLe(filled_entry, R(0))

size_units_uncapped(eq, csh, rpct, rm, rpu, filled_entry) ==
    RDiv(RMul(RMul(eq, rpct), rm), rpu)

size_units_unscaled(eq, csh, rpct, rm, rpu, filled_entry) ==
    min(RDiv(RMul(eq, rpct), rpu), RDiv(csh, filled_entry))

\* units sized by risk, capped by available cash
size_units(eq, csh, rpct, rm, rpu, filled_entry) ==
    LET risk_budget     == RMul(eq, rpct)
        adj_risk_budget == RMul(risk_budget, rm)
        units_by_risk   == RDiv(adj_risk_budget, rpu)
        units_by_cash   == RDiv(csh, filled_entry)
    IN  min(units_by_risk, units_by_cash)

units_invalid_nonfinite(final_units) == ~isfinite(final_units)

units_invalid(final_units) ==
    ~isfinite(final_units) \/ RLe(final_units, R(0))

cash_after_entry_undebited(csh, final_units, filled_entry) == csh

\* cash -= final_units * filled_entry
cash_after_entry(csh, final_units, filled_entry) == RSub(csh, RMul(final_units, filled_entry))

take_profit_trigger_two_r(raw_entry, rpu) ==
    IF isfinite(raw_entry) /\ isfinite(rpu)
    THEN RAdd(raw_entry, RMul(R(2), rpu)) ELSE NaN

take_profit_trigger(raw_entry, rpu) ==
    IF isfinite(raw_entry) /\ isfinite(rpu)
    THEN RAdd(raw_entry, RMul(R(1), rpu)) ELSE NaN

mark_to_market(csh, rem, close) ==
    IF isfinite(close) THEN RAdd(csh, RMul(rem, close)) ELSE csh

ratchet_to_ema(stop, ema_now) == ema_now

\* the stop trails the fast EMA and never moves down
ratchet(stop, ema_now) ==
    IF ~isfinite(stop) THEN ema_now ELSE max(stop, ema_now)

stop_before_checks_always(taken, stop, ema_now) ==
    IF isfinite(ema_now) THEN ratchet(stop, ema_now) ELSE stop

stop_before_checks_stale(taken, stop, ema_now) == stop

\* the ratchet that runs ahead of the exit checks once the partial is taken
stop_before_checks(taken, stop, ema_now) ==
    IF taken /\ isfinite(ema_now) THEN ratchet(stop, ema_now) ELSE stop

stop_hit(low, stop) == isfinite(low) /\ isfinite(stop) /\ RLe(low, stop)

tp1_hit_repeating(high, tp1, taken) ==
    isfinite(high) /\ isfinite(tp1) /\ RGe(high, tp1)

tp1_hit(high, tp1, taken) ==
    isfinite(high) /\ isfinite(tp1) /\ RGe(high, tp1) /\ taken = FALSE

permission_exit_inverted(can_trade, close) == can_trade /\ isfinite(close)

permission_exit(can_trade, close) == (~can_trade) /\ isfinite(close)

hold_limit_configured(rg, mhb) == mhb

hold_limit(rg, mhb) == IF rg = "HIGH_VOL" THEN mhb ELSE DefaultHoldBars

time_exit_strict(held, rg, mhb, close) ==
    held > hold_limit(rg, mhb) /\ isfinite(close)

time_exit(held, rg, mhb, close) ==
    held >= hold_limit(rg, mhb) /\ isfinite(close)

exit_branch_permission_first(low, high, close, can_trade, stop, tp1, taken, held, rg, mhb) ==
    IF stop_hit(low, stop) THEN "STOP"
    ELSE IF permission_exit(can_trade, close) THEN "PERMISSION"
    ELSE IF tp1_hit(high, tp1, taken) THEN "TP1"
    ELSE IF time_exit(held, rg, mhb, close) THEN "TIME"
    ELSE "HOLD"

exit_branch_tp_first(low, high, close, can_trade, stop, tp1, taken, held, rg, mhb) ==
    IF tp1_hit(high, tp1, taken) THEN "TP1"
    ELSE IF stop_hit(low, stop) THEN "STOP"
    ELSE IF permission_exit(can_trade, close) THEN "PERMISSION"
    ELSE IF time_exit(held, rg, mhb, close) THEN "TIME"
    ELSE "HOLD"

\* which branch of the exit chain a bar takes
exit_branch(low, high, close, can_trade, stop, tp1, taken, held, rg, mhb) ==
    IF stop_hit(low, stop) THEN "STOP"
    ELSE IF tp1_hit(high, tp1, taken) THEN "TP1"
    ELSE IF permission_exit(can_trade, close) THEN "PERMISSION"
    ELSE IF time_exit(held, rg, mhb, close) THEN "TIME"
    ELSE "HOLD"

r_multiple_of_per_unit(total_pnl, u, rpu) ==
    IF isfinite(rpu) /\ RLt(R(0), rpu) THEN RDiv(total_pnl, rpu) ELSE NaN

r_multiple_of(total_pnl, u, rpu) ==
    LET denom == RMul(u, rpu)
    IN  IF isfinite(denom) /\ RLt(R(0), denom)
        THEN RDiv(total_pnl, denom) ELSE NaN

equity_point(t, eq) == [timestamp |-> t, equity |-> eq]

\* equity_records.append(...) at the end of the loop body
record_bar(recs, t, eq) == Append(recs, equity_point(t, eq))

skip_entry_unrecorded(recs, t, eq) == recs

\* equity_records.append(...) before the `continue` of a skipped entry
skip_entry(recs, t, eq) == Append(recs, equity_point(t, eq))

raw_exit_price_close(branch, stop, close) == close

\* the raw price of a full exit: the stop level, or the close
raw_exit_price(branch, stop, close) == IF branch = "STOP" THEN stop ELSE close

units_after_partial_added(rem, sold) == RAdd(rem, sold)

\* remaining_units -= units_sold at the partial take-profit
units_after_partial(rem, sold) == RSub(rem, sold)

total_trade_pnl_final_leg(realized, rem, filled_exit, entry_fill) == RMul(rem, RSub(filled_exit, entry_fill))

\* total_pnl = realized_pnl_usd + remaining_units * (filled_exit - entry fill)
total_trade_pnl(realized, rem, filled_exit, entry_fill) == RAdd(realized, RMul(rem, RSub(filled_exit, entry_fill)))

realized_at_tp1_gross(sold, filled_tp1_exit, entry_fill) == RMul(sold, filled_tp1_exit)

\* units_sold * (filled_tp1_exit - entry_price_filled), added to
\* realized_pnl_usd at the partial take-profit
realized_at_tp1(sold, filled_tp1_exit, entry_fill) == RMul(sold, RSub(filled_tp1_exit, entry_fill))

exit_time_of_entry(t, entry) == entry

\* "exit_time": ts in the trade record
exit_time_of(t, entry) == t

in_position_reentered == row.entry_long

in_position_kept == TRUE

\* in_position after the reset that follows a full exit
in_position_after_exit == FALSE

----------------------------------------------------------------------------
(* src/backtest/metrics.py and the metrics step of run_backtest_job.       *)

\* a raised RuntimeError, as the value of the call that raised it
RuntimeError(msg) == [error |-> msg]

raised(v) == "error" \in DOMAIN v

\* trade_metrics before run_backtest_job has assigned it
Unset == [unset |-> TRUE]

\* the dict {}
EmptyDict == <<>>

\* no feature function is under call
NoCall == [none |-> TRUE]

\* compute_equity_metrics: the rows with a non-NaN equity, at least two of
\* them, the first one positive
compute_equity_metrics(equity_df) ==
    LET df == SelectSeq(equity_df, LAMBDA p : isfinite(p.equity))
    IN  IF Len(df) >= 2
        THEN IF RLt(R(0), df[1].equity)
             THEN [initial_equity |-> df[1].equity,
                   final_equity   |-> df[Len(df)].equity,
                   number_of_bars |-> Len(df)]
             ELSE RuntimeError("INITIAL EQUITY SHOULD BE POSITIVE")
        ELSE RuntimeError("EQUITY ERROR: need at least 2 non-NaN equity points")

\* compute_trade_metrics: raises on an empty ledger, else counts the trades
compute_trade_metrics(trades_df) ==
    IF Len(trades_df) = 0
    THEN RuntimeError("TRADE METRICS ERROR: no trades to analyze")
    ELSE [num_trades |-> Len(trades_df),
          num_wins   |-> Cardinality({i \in 1..Len(trades_df) :
                                         RLt(R(0), trades_df[i].pnl_usd)}),
          num_losses |-> Cardinality({i \in 1..Len(trades_df) :
                                         RLt(trades_df[i].pnl_usd, R(0))})]

\* run_backtest_job: trade_metrics = {} if trades_df.empty, else
\* compute_trade_metrics(trades_df)
job_trade_metrics(trades_df) ==
    IF Len(trades_df) = 0 THEN EmptyDict ELSE compute_trade_metrics(trades_df)

----------------------------------------------------------------------------
(* src/features/trend.py: add_trend_ok_to_execution.                       *)
(* A timestamp is a count of 4H bars; the daily candle of day d opens at   *)
(* DayStamp(d) and the 4H bars of day d are DayStamp(d) .. DayStamp(d+1)-1. *)

DayStamp(d) == d * BarsPerDay

DayOf(t) == t \div BarsPerDay

\* the index of df_4h: every 4H bar of the explored days
Bars4h == DayStamp(1) .. (DayStamp(MaxDays + 1) - 1)

\* long_bias_1d columns: a bias for each daily candle present; days may be
\* missing from the daily frame
BiasSeries ==
    UNION {[{DayStamp(d) : d \in days} -> BOOLEAN] :
               days \in SUBSET (1..MaxDays)}

\* daily frames with and without the long_bias_1d column
DailyFrames ==
    {[columns |-> cols, long_bias_1d |-> b] :
        cols \in {{"close", "ema200", "long_bias_1d"}, {"close", "ema200"}},
        b \in BiasSeries}

\* the latest timestamp of a non-empty set
latest(S) == CHOOSE x \in S : \A y \in S : y <= x

\* a bool stored in an object column that can also hold NaN
obj(b) == IF b THEN "True" ELSE "False"

shift_none(series) == [t \in DOMAIN series |-> obj(series[t])]

\* d1["long_bias_1d"].shift(1): each row takes the value of the row before
\* it, the first row NaN
shift_one(series) ==
    [t \in DOMAIN series |->
        LET before == {u \in DOMAIN series : u < t}
        IN  IF before = {} THEN "NaN" ELSE obj(series[latest(before)])]

\* bias_prev.reindex(out_4h.index, method="ffill"): the value of the most
\* recent row at or before each 4H timestamp, NaN when there is none
reindex_ffill(series, idx) ==
    [t \in idx |->
        LET upto == {u \in DOMAIN series : u <= t}
        IN  IF upto = {} THEN "NaN" ELSE series[latest(upto)]]

\* the trend_ok column of add_trend_ok_to_execution
trend_ok_of(idx, long_bias_1d) == reindex_ffill(shift_one(long_bias_1d), idx)

----------------------------------------------------------------------------
(* src/data_layer/validators.py and src/data_layer/storage.py.             *)
(* A frame is its column names, the columns of non-numeric dtype, the kind *)
(* of its index and its rows in frame order; a timestamp is a count of     *)
(* bars of the frame's timeframe.  A candle value is a finite float or nan. *)

\* timeframe_sanity_validator checks frames of more than 50 rows
SanityRows == 50
\* min_match_ratio = 0.8 of timeframe_sanity_validator, as a fraction
MatchRatioNum == 4
MatchRatioDen == 5

\* the value None
None == [none |-> TRUE]

is_none(v) == "none" \in DOMAIN v

\* required_columns of schema_validator and of save_ohlcv
ohlcv_columns == {"open", "high", "low", "close", "volume"}

Stamps == 1..MaxStamp

Candle(o, h, l, c, v) ==
    [open |-> o, high |-> h, low |-> l, close |-> c, volume |-> v]

RisingCandle == Candle(R(1), R(2), R(1), R(2), R(5))

FallingCandle == Candle(R(2), R(3), R(1), R(1), R(0))

GoodCandles == {RisingCandle, FallingCandle}

\* candles with one impossible value, and candles with one nan
AnomalousCandles ==
    {[RisingCandle EXCEPT !.high = R(0)],
     [RisingCandle EXCEPT !.open = R(3)],
     [FallingCandle EXCEPT !.open = R(0)],
     [RisingCandle EXCEPT !.close = R(3)],
     [FallingCandle EXCEPT !.close = R(0)],
     [RisingCandle EXCEPT !.volume = R(-1)],
     [RisingCandle EXCEPT !.low = R(-1)],
     Candle(R(-1), R(-1), R(-2), R(-1), R(5))}
    \cup {[RisingCandle EXCEPT ![col] = NaN] : col \in ohlcv_columns}

Bar(t, c) ==
    [timestamp |-> t, open |-> c.open, high |-> c.high, low |-> c.low,
     close |-> c.close, volume |-> c.volume]

Frame(cols, objs, idx, rows) ==
    [columns |-> cols, objects |-> objs, index |-> idx, rows |-> rows]

\* the rows of a series: one bar per timestamp of DOMAIN series, in order
RowsOfSeries(series) ==
    [k \in 1..Cardinality(DOMAIN series) |->
        LET t == CHOOSE u \in DOMAIN series :
                     Cardinality({w \in DOMAIN series : w <= u}) = k
        IN  Bar(t, series[t])]

\* well-formed series of good candles over any of the timestamps
SeriesRows ==
    {RowsOfSeries(s) :
        s \in UNION {[T -> GoodCandles] : T \in SUBSET Stamps}}

\* the rows of the frames handed to validate_ohlcv: a good candle at any
\* timestamp, an anomalous one at the first
ValidatedRows ==
    {Bar(t, c) : t \in Stamps, c \in GoodCandles}
    \cup {Bar(1, c) : c \in AnomalousCandles}

\* frames of any rows in any order, all OHLCV columns numeric
RowFrames ==
    {Frame(ohlcv_columns, {}, "DatetimeIndex", rows) :
        rows \in UNION {[1..k -> ValidatedRows] : k \in 0..MaxRows}}

\* frames of good rows with a column missing, a column of object dtype or
\* an index that is not a DatetimeIndex
SchemaFrames ==
    {Frame(ohlcv_columns \ {col}, {}, "DatetimeIndex", rows) :
        col \in ohlcv_columns, rows \in SeriesRows}
    \cup {Frame(ohlcv_columns, {col}, "DatetimeIndex", rows) :
             col \in ohlcv_columns, rows \in SeriesRows}
    \cup {Frame(ohlcv_columns, {}, "RangeIndex", rows) : rows \in SeriesRows}

\* schema_validator: the OHLCV columns exist, are numeric and hold no nan.
\* The loop visits the columns in set order, which decides only which of
\* the two messages a frame with both defects gets.
schema_validator(df) ==
    IF ~(ohlcv_columns \subseteq df.columns)
    THEN RuntimeError("SCHEMA ERROR")
    ELSE IF \E col \in ohlcv_columns : col \in df.objects
    THEN RuntimeError("DATATYPE ERROR")
    ELSE IF \E col \in ohlcv_columns :
                \E i \in 1..Len(df.rows) : df.rows[i][col] = NaN
    THEN RuntimeError("DATA GAP")
    ELSE None

\* df.index.has_duplicates
has_duplicates(rows) ==
    \E i, j \in 1..Len(rows) : i < j /\ rows[i].timestamp = rows[j].timestamp

\* df.index.is_monotonic_increasing: each timestamp >= the one before it
is_monotonic_increasing(rows) ==
    \A i \in 1..(Len(rows) - 1) : rows[i].timestamp <= rows[i + 1].timestamp

timestamp_validator_monotonic(df) ==
    IF df.index # "DatetimeIndex"
    THEN RuntimeError("INDEX ERROR")
    ELSE IF ~is_monotonic_increasing(df.rows)
    THEN RuntimeError("CHRONOLOGY ERROR")
    ELSE df

\* timestamp_validator: a DatetimeIndex without duplicates, in increasing
\* order; returns the copy of the frame
timestamp_validator(df) ==
    IF df.index # "DatetimeIndex"
    THEN RuntimeError("INDEX ERROR")
    ELSE IF has_duplicates(df.rows)
    THEN RuntimeError("DUPLICATE ERROR")
    ELSE IF ~is_monotonic_increasing(df.rows)
    THEN RuntimeError("CHRONOLOGY ERROR")
    ELSE df

\* is_valid of candle_integrity_validator for one row
candle_ok(r) ==
    /\ RGe(r.high, r.low)
    /\ RLe(r.open, r.high) /\ RGe(r.open, r.low)
    /\ RLe(r.close, r.high) /\ RGe(r.close, r.low)
    /\ RGe(r.volume, R(0))
    /\ RGe(r.open, R(0)) /\ RGe(r.high, R(0))
    /\ RGe(r.low, R(0)) /\ RGe(r.close, R(0))

candle_integrity_validator(df) ==
    IF \A i \in 1..Len(df.rows) : candle_ok(df.rows[i])
    THEN None
    ELSE RuntimeError("INTEGRITY ERROR")

\* timeframe_sanity_validator: frames of more than SanityRows rows need a
\* supported timeframe and min_match_ratio of their consecutive gaps equal
\* to one bar of it (the tolerance of 5 minutes is less than a bar)
timeframe_sanity_validator(df, timeframe) ==
    IF Len(df.rows) > SanityRows
    THEN IF timeframe \notin {"4h", "1d", "1day", "d"}
         THEN RuntimeError("INPUT ERROR")
         ELSE LET gaps == 1..(Len(df.rows) - 1)
                  matches == {i \in gaps :
                      df.rows[i + 1].timestamp - df.rows[i].timestamp = 1}
              IN  IF Cardinality(matches) * MatchRatioDen
                         < MatchRatioNum * Cardinality(gaps)
                  THEN RuntimeError("TIMEFRAME ERROR")
                  ELSE None
    ELSE None

\* validate_ohlcv: the four validators in order; the frame, or the error of
\* the first validator that raises
validate_ohlcv(df, timeframe) ==
    IF raised(schema_validator(df)) THEN schema_validator(df)
    ELSE IF raised(timestamp_validator(df)) THEN timestamp_validator(df)
    ELSE IF raised(candle_integrity_validator(df))
    THEN candle_integrity_validator(df)
    ELSE IF raised(timeframe_sanity_validator(df, timeframe))
    THEN timeframe_sanity_validator(df, timeframe)
    ELSE timestamp_validator(df)

\* pd.concat([old_df, new_df]): the rows of both, old first
concat(old_df, new_df) ==
    Frame(old_df.columns \cup new_df.columns,
          old_df.objects \cup new_df.objects,
          IF old_df.index = new_df.index THEN old_df.index ELSE "Index",
          old_df.rows \o new_df.rows)

\* the rows at the positions of keep, in frame order
take(rows, keep) ==
    [k \in 1..Cardinality(keep) |->
        rows[CHOOSE i \in keep : Cardinality({j \in keep : j <= i}) = k]]

drop_duplicated_first(rows) ==
    take(rows, {i \in 1..Len(rows) :
                   \A j \in 1..(i - 1) : rows[j].timestamp # rows[i].timestamp})

drop_duplicated_none(rows) ==
    take(rows, 1..Len(rows))

\* merged[~merged.index.duplicated(keep="last")]: of the rows with the same
\* timestamp only the last stays
drop_duplicated(rows) ==
    take(rows, {i \in 1..Len(rows) :
                   \A j \in (i + 1)..Len(rows) :
                       rows[j].timestamp # rows[i].timestamp})

\* the rows that sort before row i: an earlier timestamp, or the same
\* timestamp earlier in the frame
sorts_before(rows, i) ==
    {j \in 1..Len(rows) :
        \/ rows[j].timestamp < rows[i].timestamp
        \/ rows[j].timestamp = rows[i].timestamp /\ j < i}

\* sort_index: the rows by timestamp
sort_index(rows) ==
    [k \in 1..Len(rows) |->
        rows[CHOOSE i \in 1..Len(rows) :
                 Cardinality(sorts_before(rows, i)) = k - 1]]

\* merge_ohlcv
merge_ohlcv(old_df, new_df, timeframe) ==
    IF raised(validate_ohlcv(new_df, timeframe))
    THEN RuntimeError("MERGE OHLCV ERROR")
    ELSE IF is_none(old_df)
    THEN new_df
    ELSE IF raised(validate_ohlcv(old_df, timeframe))
    THEN RuntimeError("MERGE OHLCV ERROR")
    ELSE LET both == concat(old_df, new_df)
             merged == [both EXCEPT
                           !.rows = sort_index(drop_duplicated(both.rows))]
         IN  IF raised(validate_ohlcv(merged, timeframe))
             THEN RuntimeError("MERGE OHLCV ERROR")
             ELSE merged

\* no file at the path of the series
NoFile == [missing |-> TRUE]

\* out.to_csv(path, index=False): the timestamp column first, then the
\* OHLCV columns, one line per row
to_csv(df) ==
    [header |-> {"timestamp"} \cup ohlcv_columns, lines |-> df.rows]

\* save_ohlcv: the validated frame cut to required_columns and written; the
\* file it leaves at the path, or the error it raises before writing
save_ohlcv(df, timeframe) ==
    LET validated == validate_ohlcv(df, timeframe)
    IN  IF raised(validated)
        THEN RuntimeError("SAVE_OHLCV ERROR")
        ELSE to_csv(validated)

\* load_ohlcv: None without a file, else the file's rows indexed by their
\* timestamp column, sorted and validated
load_ohlcv(file, timeframe) ==
    IF "missing" \in DOMAIN file
    THEN None
    ELSE IF "timestamp" \notin file.header
    THEN RuntimeError("LOAD ERROR")
    ELSE LET df == Frame(file.header \ {"timestamp"}, {}, "DatetimeIndex",
                         sort_index(file.lines))
             validated == validate_ohlcv(df, timeframe)
         IN  IF raised(validated)
             THEN RuntimeError("while loading OHLCV")
             ELSE validated

\* upsert_ohlcv: load, merge, save; what it returns or raises, and the file
\* at the path afterwards
upsert_ohlcv(file, new_df, timeframe) ==
    LET old_df == load_ohlcv(file, timeframe)
        merged == merge_ohlcv(old_df, new_df, timeframe)
        saved  == save_ohlcv(merged, timeframe)
    IN  IF raised(old_df)
        THEN [result |-> old_df, file |-> file]
        ELSE IF raised(merged)
        THEN [result |-> merged, file |-> file]
        ELSE IF raised(saved)
        THEN [result |-> saved, file |-> file]
        ELSE [result |-> merged, file |-> saved]

\* frames handed to merge_ohlcv and upsert_ohlcv: well-formed series with
\* and without a feature column, and frames validation rejects
SeriesFrames ==
    {Frame(cols, {}, "DatetimeIndex", rows) :
        cols \in {ohlcv_columns, ohlcv_columns \cup {"atr_14"}},
        rows \in SeriesRows}

FaultyFrames ==
    {Frame(ohlcv_columns, {}, "DatetimeIndex", rows) :
        rows \in {<<Bar(1, RisingCandle), Bar(1, FallingCandle)>>,
                  <<Bar(2, RisingCandle), Bar(1, RisingCandle)>>,
                  <<Bar(1, [RisingCandle EXCEPT !.high = R(0)])>>}}
    \cup {Frame(ohlcv_columns \ {"volume"}, {}, "DatetimeIndex",
                <<Bar(1, RisingCandle)>>)}

MergeFrames == SeriesFrames \cup FaultyFrames

\* frames handed to upsert_ohlcv: the series of one kind of candle, with a
\* feature column only those of rising candles, and the rejected frames
UpsertFrames ==
    {f \in SeriesFrames :
        /\ \A i, j \in 1..Len(f.rows) : f.rows[i].close = f.rows[j].close
        /\ "atr_14" \in f.columns =>
               \A i \in 1..Len(f.rows) : f.rows[i].close = RisingCandle.close}
    \cup FaultyFrames

----------------------------------------------------------------------------
(* src/strategies/trend_pullback.py: add_entry_signals.                    *)
(* A bool column is held as in the trend feature: "True", "False" or, for  *)
(* a missing value, "NaN".                                                 *)

\* a & b of two bool columns with missing values: False wins, then NaN
and_na(a, b) ==
    IF a = "False" \/ b = "False" THEN "False"
    ELSE IF a = "NaN" \/ b = "NaN" THEN "NaN"
    ELSE "True"

\* .fillna(False) of one value, as a bool
fillna_false(a) == a = "True"

entry_long_cond_ungated(r) ==
    and_na(and_na(r.trend_4h_ok, r.pullback_reclaim_ema_fast),
           r.bullish_candle)

\* entry_long_cond of add_entry_signals for one row
entry_long_cond(r) ==
    and_na(and_na(and_na(r.can_trade, r.trend_4h_ok),
                  r.pullback_reclaim_ema_fast),
           r.bullish_candle)

\* add_entry_signals: the frame with its entry_long and entry_price columns
add_entry_signals(df_4h) ==
    [i \in 1..Len(df_4h) |->
        LET r          == df_4h[i]
            entry_long == fillna_false(entry_long_cond(r))
        IN  [can_trade   |-> r.can_trade,
             close       |-> r.close,
             entry_long  |-> entry_long,
             entry_price |-> IF entry_long THEN r.close ELSE NaN]]

\* the close of the row at position i of the explored frames
close_at(i) == R(100 + i)

\* the flag columns of one row: can_trade with missing values, the
\* indicator flags without
SignalFlags ==
    [can_trade : {"True", "False", "NaN"},
     trend_4h_ok : {"True", "False"},
     pullback_reclaim_ema_fast : {"True", "False"},
     bullish_candle : {"True", "False"}]

SignalFrames ==
    UNION {{[i \in 1..k |->
               [can_trade |-> f[i].can_trade,
                trend_4h_ok |-> f[i].trend_4h_ok,
                pullback_reclaim_ema_fast |-> f[i].pullback_reclaim_ema_fast,
                bullish_candle |-> f[i].bullish_candle,
                close |-> close_at(i)]] :
              f \in [1..k -> SignalFlags]} : k \in 0..MaxRows}

----------------------------------------------------------------------------
(* run_simulation: the state machine, followed by the metrics step of     *)
(* run_backtest_job once run_simulation has returned.                      *)

Configs(m) ==
    /\ mode = m
    /\ columns \in ColumnSets
    /\ initial_cash \in (IF m = "long" THEN {R(10000)}
                                       ELSE {R(0), R(10000)})
    /\ risk_pct \in {Q(1, 100)}
    /\ cost_rate \in (IF m = "long" THEN {Q(1, 10)} ELSE {R(0), Q(1, 10)})
    /\ max_hold_bars \in (IF m = "long" THEN {2} ELSE {1})

\* the locals of run_simulation before its loop
Locals ==
    /\ ts = 0
    /\ row = NoRow
    /\ index = <<>>
    /\ cash = initial_cash
    /\ equity = initial_cash
    /\ in_position = FALSE
    /\ units = R(0)
    /\ entry_time = NoTime
    /\ entry_price_filled = NaN
    /\ stop_price_state = NaN
    /\ risk_per_unit_state = NaN
    /\ bars_held = 0
    /\ remaining_units = R(0)
    /\ partial_taken = FALSE
    /\ tp1_price = NaN
    /\ realized_pnl_usd = R(0)
    /\ regime = ""
    /\ trades = <<>>
    /\ equity_records = <<>>
    /\ trade_metrics = Unset

Start ==
    /\ pc = "check"
    /\ Locals
    /\ call_args = NoCall
    /\ call_result = NoCall
    /\ ohlcv_csv = NoFile

Init == Configs("wide") /\ Start

InitLong == Configs("long") /\ Start

\* missing = required_columns - set(df_4h.columns); raise if missing
CheckColumns ==
    /\ pc = "check"
    /\ pc' = IF required_columns \ columns # {} THEN "raised" ELSE "loop"
    /\ UNCHANGED <<cfgvars, ts, row, index, cash, equity, posvars, trades,
                   equity_records, trade_metrics,
                   callvars>>

\* for ts, row in df_4h.iterrows(): the next row of the sorted frame
NextRow(t, r) ==
    /\ pc = "loop"
    /\ Len(index) < BarsOf(mode)
    /\ pc' = "body"
    /\ ts' = t
    /\ row' = r
    /\ index' = Append(index, t)
    /\ UNCHANGED <<cfgvars, cash, equity, posvars, trades, equity_records,
                   trade_metrics,
                   callvars>>

\* the loop body on a row met with no position open
FlatBar ==
    /\ pc = "body"
    /\ ~in_position
    /\ pc' = "loop"
    /\ row' = NoRow
    /\ UNCHANGED <<cfgvars, ts, index, trades, trade_metrics,
                   callvars>>
    /\ equity' = cash
    /\ LET r            == row
           t            == ts
           raw_entry    == to_float(r.entry_price)
           rpu          == to_float(r.risk_per_unit)
           rm           == IF isfinite(r.risk_multiplier)
                           THEN r.risk_multiplier ELSE R(0)
           filled_entry == apply_buy_cost(raw_entry, cost_rate)
           final_units  == size_units(cash, cash, risk_pct, rm, rpu,
                                      filled_entry)
           skip         == \/ entry_invalid(raw_entry, rpu, rm)
                           \/ fill_invalid(filled_entry)
                           \/ units_invalid(final_units)
       IN  IF ~r.entry_long
           THEN /\ equity_records' = record_bar(equity_records, t, cash)
                /\ UNCHANGED <<cash, posvars>>
           ELSE /\ regime' = r.vol_regime
                /\ partial_taken' = FALSE
                /\ realized_pnl_usd' = R(0)
                /\ IF skip
                   THEN /\ equity_records' =
                              skip_entry(equity_records, t, cash)
                        /\ UNCHANGED <<cash, in_position, units, entry_time,
                                       entry_price_filled, stop_price_state,
                                       risk_per_unit_state, bars_held,
                                       remaining_units, tp1_price>>
                   ELSE /\ equity_records' =
                              record_bar(equity_records, t, cash)
                        /\ cash' = cash_after_entry(cash, final_units,
                                                    filled_entry)
                        /\ in_position' = TRUE
                        /\ units' = final_units
                        /\ remaining_units' = final_units
                        /\ entry_time' = t
                        /\ entry_price_filled' = filled_entry
                        /\ stop_price_state' = to_float(r.stop_price)
                        /\ risk_per_unit_state' = rpu
                        /\ tp1_price' = take_profit_trigger(raw_entry, rpu)
                        /\ bars_held' = 0

\* the loop body on a row met with a position open
PositionBar ==
    /\ pc = "body"
    /\ in_position
    /\ pc' = "loop"
    /\ row' = NoRow
    /\ UNCHANGED <<cfgvars, ts, index, regime, trade_metrics,
                   callvars>>
    /\ LET r       == row
           t       == ts
           close   == to_float(r.close)
           low     == to_float(r.low)
           high    == to_float(r.high)
           ema_now == to_float(r.ema_fast_4h)
           mtm     == mark_to_market(cash, remaining_units, close)
           stop1   == stop_before_checks(partial_taken, stop_price_state,
                                         ema_now)
           branch  == exit_branch(low, high, close, r.can_trade, stop1,
                                  tp1_price, partial_taken, bars_held,
                                  regime, max_hold_bars)
       IN  IF branch = "TP1"
           THEN LET filled_tp1_exit == apply_sell_cost(tp1_price, cost_rate)
                    units_sold      == RMul(remaining_units, tp1_fraction)
                    rem             == units_after_partial(remaining_units,
                                                           units_sold)
                    csh             == RAdd(cash, RMul(units_sold,
                                                       filled_tp1_exit))
                IN  /\ remaining_units' = rem
                    /\ cash' = csh
                    /\ stop_price_state' =
                           IF isfinite(ema_now) THEN ratchet(stop1, ema_now)
                           ELSE stop1
                    /\ realized_pnl_usd' =
                           RAdd(realized_pnl_usd,
                                realized_at_tp1(units_sold, filled_tp1_exit,
                                                entry_price_filled))
                    /\ partial_taken' = TRUE
                    /\ equity' = IF isfinite(filled_tp1_exit)
                                 THEN RAdd(csh, RMul(rem, filled_tp1_exit))
                                 ELSE mtm
                    /\ bars_held' = bars_held + 1
                    /\ equity_records' =
                           record_bar(equity_records, t, equity')
                    /\ UNCHANGED <<in_position, units, entry_time,
                                   entry_price_filled, risk_per_unit_state,
                                   tp1_price, trades>>
           ELSE IF branch = "HOLD"
           THEN /\ stop_price_state' = stop1
                /\ equity' = mtm
                /\ bars_held' = bars_held + 1
                /\ equity_records' =
                       record_bar(equity_records, t, mtm)
                /\ UNCHANGED <<cash, in_position, units, entry_time,
                               entry_price_filled, risk_per_unit_state,
                               remaining_units, partial_taken, tp1_price,
                               realized_pnl_usd, trades>>
           ELSE LET raw_exit      == raw_exit_price(branch, stop1, close)
                    filled_exit   == apply_sell_cost(raw_exit, cost_rate)
                    total_pnl     == total_trade_pnl(realized_pnl_usd,
                                                     remaining_units,
                                                     filled_exit,
                                                     entry_price_filled)
                    csh           == RAdd(cash, RMul(remaining_units,
                                                     filled_exit))
                IN  /\ cash' = csh
                    /\ trades' = Append(trades,
                          [entry_time      |-> entry_time,
                           exit_time       |-> exit_time_of(t, entry_time),
                           entry_price     |-> entry_price_filled,
                           exit_price      |-> filled_exit,
                           units           |-> units,
                           remaining_units |-> remaining_units,
                           reason          |-> branch,
                           pnl_usd         |-> total_pnl,
                           partial_taken   |-> partial_taken,
                           r_multiple      |-> r_multiple_of(total_pnl, units,
                                                  risk_per_unit_state),
                           cash_after      |-> csh])
                    /\ in_position' = in_position_after_exit
                    /\ units' = R(0)
                    /\ entry_time' = NoTime
                    /\ entry_price_filled' = NaN
                    /\ stop_price_state' = NaN
                    /\ risk_per_unit_state' = NaN
                    /\ bars_held' = 0
                    /\ partial_taken' = FALSE
                    /\ realized_pnl_usd' = R(0)
                    /\ tp1_price' = NaN
                    /\ remaining_units' = R(0)
                    /\ equity' = csh
                    /\ equity_records' =
                           record_bar(equity_records, t, csh)

\* the loop ends; the frames are built and returned. set_index("timestamp")
\* raises on the frame built from an empty list of records
Return ==
    /\ pc = "loop"
    /\ pc' = IF equity_records = <<>> THEN "raised" ELSE "done"
    /\ UNCHANGED <<cfgvars, ts, row, index, cash, equity, posvars, trades,
                   equity_records, trade_metrics,
                   callvars>>

\* run_backtest_job after run_simulation has returned: the equity metrics,
\* then the trade metrics, then the result dict
ComputeMetrics ==
    /\ pc = "done"
    /\ LET equity_metrics == compute_equity_metrics(equity_records)
           tm             == job_trade_metrics(trades)
       IN  IF raised(equity_metrics) \/ raised(tm)
           THEN pc' = "job_raised" /\ UNCHANGED trade_metrics
           ELSE pc' = "job_done" /\ trade_metrics' = tm
    /\ UNCHANGED <<cfgvars, ts, row, index, cash, equity, posvars, trades,
                   equity_records, callvars>>

NextTimestamps_repeating == {ts, ts + 1}

\* df_4h is sorted by its index: the next timestamp follows the last one
NextTimestamps == {ts + 1}

Next ==
    \/ CheckColumns
    \/ \E t \in NextTimestamps, r \in RowsOf(mode) : NextRow(t, r)
    \/ FlatBar
    \/ PositionBar
    \/ Return
    \/ ComputeMetrics

Spec == Init /\ [][Next]_vars

SpecLong == InitLong /\ [][Next]_vars

----------------------------------------------------------------------------
(* Calls of the feature functions, explored on their own inputs.           *)

\* run_simulation is not running: its parameters and locals stay fixed
Parked(m) ==
    /\ mode = m
    /\ columns = required_columns
    /\ initial_cash = R(0)
    /\ risk_pct = R(0)
    /\ cost_rate = R(0)
    /\ max_hold_bars = 0
    /\ Locals

InitTrend ==
    /\ Parked("trend")
    /\ pc = "call"
    /\ call_args \in {[df_4h |-> Bars4h, df_1d |-> d] : d \in DailyFrames}
    /\ call_result = NoCall
    /\ ohlcv_csv = NoFile

\* add_trend_ok_to_execution(df_4h, df_1d): raises without the bias column,
\* else returns df_4h with its trend_ok column
AddTrendOk ==
    /\ pc = "call"
    /\ mode = "trend"
    /\ IF "long_bias_1d" \notin call_args.df_1d.columns
       THEN pc' = "raised" /\ UNCHANGED call_result
       ELSE /\ pc' = "returned"
            /\ call_result' =
                   trend_ok_of(call_args.df_4h, call_args.df_1d.long_bias_1d)
    /\ UNCHANGED <<cfgvars, ts, row, index, cash, equity, posvars, trades,
                   equity_records, trade_metrics, call_args, ohlcv_csv>>

NextTrend == AddTrendOk

SpecTrend == InitTrend /\ [][NextTrend]_vars

\* what a call that returned or raised v leaves in pc
outcome(v) == IF raised(v) THEN "raised" ELSE "returned"

InitValidate ==
    /\ Parked("validate")
    /\ pc = "call"
    /\ call_args \in {[df |-> f, timeframe |-> "4h"] :
                          f \in RowFrames \cup SchemaFrames}
    /\ call_result = NoCall
    /\ ohlcv_csv = NoFile

\* validate_ohlcv(df, timeframe)
ValidateOhlcv ==
    /\ pc = "call"
    /\ mode = "validate"
    /\ call_result' = validate_ohlcv(call_args.df, call_args.timeframe)
    /\ pc' = outcome(call_result')
    /\ UNCHANGED <<cfgvars, ts, row, index, cash, equity, posvars, trades,
                   equity_records, trade_metrics, call_args, ohlcv_csv>>

NextValidate == ValidateOhlcv

SpecValidate == InitValidate /\ [][NextValidate]_vars

InitMerge ==
    /\ Parked("merge")
    /\ pc = "call"
    /\ call_args \in {[old_df |-> o, new_df |-> n, timeframe |-> "4h"] :
                          o \in {None} \cup MergeFrames, n \in MergeFrames}
    /\ call_result = NoCall
    /\ ohlcv_csv = NoFile

\* merge_ohlcv(old_df, new_df, timeframe)
MergeOhlcv ==
    /\ pc = "call"
    /\ mode = "merge"
    /\ call_result' = merge_ohlcv(call_args.old_df, call_args.new_df,
                                  call_args.timeframe)
    /\ pc' = outcome(call_result')
    /\ UNCHANGED <<cfgvars, ts, row, index, cash, equity, posvars, trades,
                   equity_records, trade_metrics, call_args, ohlcv_csv>>

NextMerge == MergeOhlcv

SpecMerge == InitMerge /\ [][NextMerge]_vars

InitUpsert ==
    /\ Parked("upsert")
    /\ pc = "call"
    /\ call_args = NoCall
    /\ call_result = NoCall
    /\ ohlcv_csv = NoFile

\* upsert_ohlcv(new_df, exchange, symbol, timeframe, root_dir), called any
\* number of times on the same path
UpsertOhlcv(new_df) ==
    /\ pc \in {"call", "returned", "raised"}
    /\ mode = "upsert"
    /\ call_args' = [new_df |-> new_df, timeframe |-> "4h"]
    /\ LET out == upsert_ohlcv(ohlcv_csv, new_df, "4h")
       IN  /\ call_result' = out.result
           /\ ohlcv_csv' = out.file
           /\ pc' = outcome(out.result)
    /\ UNCHANGED <<cfgvars, ts, row, index, cash, equity, posvars, trades,
                   equity_records, trade_metrics>>

NextUpsert == \E new_df \in UpsertFrames : UpsertOhlcv(new_df)

SpecUpsert == InitUpsert /\ [][NextUpsert]_vars

InitSignals ==
    /\ Parked("signals")
    /\ pc = "call"
    /\ call_args \in {[df_4h |-> f] : f \in SignalFrames}
    /\ call_result = NoCall
    /\ ohlcv_csv = NoFile

\* add_entry_signals(df_4h)
AddEntrySignals ==
    /\ pc = "call"
    /\ mode = "signals"
    /\ call_result' = add_entry_signals(call_args.df_4h)
    /\ pc' = "returned"
    /\ UNCHANGED <<cfgvars, ts, row, index, cash, equity, posvars, trades,
                   equity_records, trade_metrics, call_args, ohlcv_csv>>

NextSignals == AddEntrySignals

SpecSignals == InitSignals /\ [][NextSignals]_vars

----------------------------------------------------------------------------
(* Properties of run_simulation.                                           *)

Last(s) == s[Len(s)]

SellFactor == RSub(R(1), cost_rate)

BuyFactor == RAdd(R(1), cost_rate)

\* a row has been fetched and is about to be processed
Holding == pc = "body" /\ in_position

Flat == pc = "body" /\ ~in_position

\* the stop in force when the exit checks of the fetched row run
CurStop ==
    IF partial_taken /\ isfinite(row.ema_fast_4h)
    THEN IF isfinite(stop_price_state)
            /\ RLe(row.ema_fast_4h, stop_price_state)
         THEN stop_price_state ELSE row.ema_fast_4h
    ELSE stop_price_state

StopCond == isfinite(row.low) /\ isfinite(CurStop) /\ RLe(row.low, CurStop)

TpCond ==
    /\ ~partial_taken
    /\ isfinite(row.high) /\ isfinite(tp1_price)
    /\ RLe(tp1_price, row.high)

PermCond == ~row.can_trade /\ isfinite(row.close)

Limit == IF regime = "HIGH_VOL" THEN max_hold_bars ELSE 10

TimeCond == bars_held >= Limit /\ isfinite(row.close)

\* what the step did
Closed(reason) ==
    /\ Len(trades') = Len(trades) + 1
    /\ Last(trades').reason = reason
    /\ ~in_position'

PartialSold ==
    /\ trades' = trades
    /\ in_position'
    /\ ~partial_taken /\ partial_taken'
    /\ RLt(remaining_units', remaining_units)

StillOpen ==
    /\ trades' = trades
    /\ in_position'
    /\ remaining_units' = remaining_units
    /\ partial_taken' = partial_taken

\* C1: at most one position is open at any point of the bar sequence, and
\* consecutive trade records never overlap in time: each record's exit_time
\* is <= the next record's entry_time, and <= the entry time of the position
\* that is open now.
C1_NoOverlap ==
    /\ \A i \in 1..(Len(trades) - 1) :
          trades[i].exit_time <= trades[i + 1].entry_time
    /\ \A i \in 1..Len(trades) : trades[i].entry_time # NoTime
    /\ in_position =>
          /\ entry_time # NoTime
          /\ \A i \in 1..Len(trades) : trades[i].exit_time <= entry_time

W_C1 == Len(trades) >= 2

C3_ExitPriority ==
    [][Holding =>
         /\ Len(trades') <= Len(trades) + 1
         /\ StopCond =>
               /\ Closed("STOP")
               /\ Last(trades').remaining_units = remaining_units
               /\ Last(trades').partial_taken = partial_taken
         /\ (~StopCond /\ TpCond) => PartialSold
         /\ (~StopCond /\ ~TpCond /\ PermCond) => Closed("PERMISSION")
         /\ (~StopCond /\ ~TpCond /\ ~PermCond /\ TimeCond) => Closed("TIME")
         /\ (~StopCond /\ ~TpCond /\ ~PermCond /\ ~TimeCond) => StillOpen
      ]_vars

\* the stop and the take-profit trigger are both crossed by the fetched row
W_C3 == Holding /\ StopCond /\ TpCond

\* C4: one equity point per bar, stamped with the bar's timestamp, in order,
\* after every kind of bar and in the returned series.
C4_OnePointPerBar ==
    /\ pc \in {"loop", "done"} =>
          /\ Len(equity_records) = Len(index)
          /\ \A i \in 1..Len(index) : equity_records[i].timestamp = index[i]
    /\ pc = "body" => Len(equity_records) = Len(index) - 1

\* a returned run with a skipped or signal-free bar, an entry, a partial
\* sale and a full exit
W_C4 ==
    /\ pc = "done"
    /\ Len(index) >= 4
    /\ Len(trades) = 1
    /\ Last(trades).partial_taken

\* C5: when low <= stop (both finite) the position is fully closed on that
\* bar with reason STOP, filled at stop x (1 - cost_rate), and cash is
\* credited remaining_units x that fill.
C5_StopExit ==
    [][(Holding /\ StopCond) =>
         /\ Closed("STOP")
         /\ Last(trades').exit_time = ts
         /\ Last(trades').exit_price = RMul(CurStop, SellFactor)
         /\ cash' = RAdd(cash, RMul(remaining_units,
                                    RMul(CurStop, SellFactor)))
         /\ remaining_units' = R(0)
         /\ units' = R(0)
      ]_vars

\* the low is under the stop, and the stop is neither the low nor the close
W_C5 ==
    /\ Holding /\ StopCond
    /\ RLt(row.low, CurStop) /\ RLt(CurStop, row.close)
    /\ RLt(R(0), cost_rate)

\* C6: when the stop does not fire, no partial was taken and high >= the
\* take-profit trigger (both finite), half of remaining_units is sold at
\* trigger x (1 - cost_rate); cash and realized PnL grow by the sale, the
\* flag is set and the position stays open with remaining_units halved.
C6_PartialTakeProfit ==
    [][(Holding /\ ~StopCond /\ TpCond) =>
         LET fill == RMul(tp1_price, SellFactor)
             sold == RMul(remaining_units, Q(1, 2))
         IN  /\ RAdd(remaining_units', remaining_units') = remaining_units
             /\ RAdd(remaining_units', sold) = remaining_units
             /\ cash' = RAdd(cash, RMul(sold, fill))
             /\ realized_pnl_usd' =
                    RAdd(realized_pnl_usd,
                         RMul(sold, RSub(fill, entry_price_filled)))
             /\ partial_taken'
             /\ in_position'
             /\ units' = units
             /\ trades' = trades
      ]_vars

W_C6 == Holding /\ ~StopCond /\ TpCond /\ RLt(R(0), cost_rate)

\* C7: when neither the stop nor the take-profit partial fires, can_trade is
\* false and close is finite, the position is fully closed on that bar with
\* reason PERMISSION at close x (1 - cost_rate).
C7_PermissionExit ==
    [][(Holding /\ ~StopCond /\ ~TpCond
           /\ ~row.can_trade /\ isfinite(row.close)) =>
         /\ Closed("PERMISSION")
         /\ Last(trades').exit_time = ts
         /\ Last(trades').exit_price = RMul(row.close, SellFactor)
         /\ cash' = RAdd(cash, RMul(remaining_units,
                                    RMul(row.close, SellFactor)))
      ]_vars

\* permission is withdrawn on a bar that leaves stop and trigger untouched,
\* before the hold limit is reached
W_C7 ==
    /\ Holding /\ ~StopCond /\ ~TpCond /\ PermCond /\ ~TimeCond
    /\ isfinite(CurStop) /\ RLt(R(0), cost_rate)

SizedUnits ==
    LET rm     == IF isfinite(row.risk_multiplier)
                  THEN row.risk_multiplier ELSE R(0)
        byRisk == RDiv(RMul(RMul(cash, risk_pct), rm), row.risk_per_unit)
        byCash == RDiv(cash, RMul(row.entry_price, BuyFactor))
    IN  IF RLe(byRisk, byCash) THEN byRisk ELSE byCash

\* C9: an accepted entry buys min(equity x risk_pct x risk_multiplier /
\* risk_per_unit, cash / filled_entry) units at filled_entry = entry_price
\* x (1 + cost_rate) and debits units x filled_entry; cash 10000, price
\* 100, risk 2, multiplier 1, risk_pct 0.01, cost 0 give 50 units and 5000.
C9_Sizing ==
    [][/\ (Flat /\ row.entry_long /\ in_position') =>
            /\ equity' = cash
            /\ units' = SizedUnits
            /\ remaining_units' = units'
            /\ entry_price_filled' = RMul(row.entry_price, BuyFactor)
            /\ cash' = RSub(cash, RMul(units', entry_price_filled'))
       /\ (Flat /\ row.entry_long
              /\ cash = R(10000) /\ row.entry_price = R(100)
              /\ row.risk_per_unit = R(2) /\ row.risk_multiplier = R(1)
              /\ risk_pct = Q(1, 100) /\ cost_rate = R(0)) =>
            /\ in_position'
            /\ units' = R(50)
            /\ cash' = R(5000)
      ]_vars

W_C9 ==
    /\ Flat /\ row.entry_long
    /\ cash = R(10000) /\ row.entry_price = R(100)
    /\ row.risk_per_unit = R(2) /\ row.risk_multiplier = R(1)
    /\ risk_pct = Q(1, 100) /\ cost_rate = R(0)

\* the fetched entry candidate is one the simulator must skip
BadEntry ==
    \/ ~isfinite(row.entry_price)
    \/ ~isfinite(row.risk_per_unit)
    \/ RLe(row.risk_per_unit, R(0))
    \/ ~isfinite(row.risk_multiplier)
    \/ RLe(row.risk_multiplier, R(0))
    \/ ~isfinite(RMul(row.entry_price, BuyFactor))
    \/ RLe(RMul(row.entry_price, BuyFactor), R(0))
    \/ ~isfinite(SizedUnits)
    \/ RLe(SizedUnits, R(0))

\* C10: a flat bar whose entry candidate has a non-finite or non-positive
\* price, per-unit risk, multiplier, fill or unit count is skipped without
\* raising: cash unchanged, still flat, one equity point equal to the
\* unchanged cash, and the loop goes on.
C10_SkippedEntry ==
    [][(Flat /\ row.entry_long /\ BadEntry) =>
         /\ cash' = cash
         /\ ~in_position'
         /\ trades' = trades
         /\ equity_records' =
                Append(equity_records, [timestamp |-> ts, equity |-> cash])
         /\ pc' = "loop"
      ]_vars

\* an entry candidate without a per-unit risk, met with cash in hand
W_C10 ==
    /\ Flat /\ row.entry_long
    /\ ~isfinite(row.risk_per_unit)
    /\ isfinite(row.entry_price) /\ RLt(R(0), row.risk_multiplier)
    /\ RLt(R(0), cash)

\* the step appended to the trade ledger: a full exit
FullExit == Holding /\ Len(trades') # Len(trades)

\* a full-exit condition holds on the fetched row
ExitDue == StopCond \/ (~TpCond /\ (PermCond \/ TimeCond))

\* C11: on every full exit (STOP, PERMISSION or TIME) the total PnL is the
\* realized PnL + remaining_units x (filled exit - entry fill), cash is
\* credited remaining_units x filled exit, exactly one trade record with
\* reason in {STOP, PERMISSION, TIME} and cash_after = the new cash is
\* appended, the position is reset to flat (units, remaining_units,
\* bars_held zeroed, partial_taken false), and the equity recorded for that
\* bar equals cash.
C11_FullExit ==
    [][/\ (Holding /\ ExitDue) => FullExit
       /\ FullExit =>
            /\ ExitDue
            /\ trades' = Append(trades, Last(trades'))
            /\ LET t == Last(trades')
               IN  /\ t.reason \in {"STOP", "PERMISSION", "TIME"}
                   /\ t.exit_price =
                          RMul(IF t.reason = "STOP" THEN CurStop
                               ELSE row.close, SellFactor)
                   /\ t.pnl_usd =
                          RAdd(realized_pnl_usd,
                               RMul(remaining_units,
                                    RSub(t.exit_price, entry_price_filled)))
                   /\ cash' = RAdd(cash, RMul(remaining_units, t.exit_price))
                   /\ t.cash_after = cash'
            /\ ~in_position'
            /\ units' = R(0)
            /\ remaining_units' = R(0)
            /\ bars_held' = 0
            /\ ~partial_taken'
            /\ equity' = cash'
            /\ Last(equity_records') = [timestamp |-> ts, equity |-> cash']
      ]_vars

\* the stop is hit after a partial take-profit, with costs charged
W_C11 ==
    /\ Holding /\ StopCond
    /\ partial_taken /\ realized_pnl_usd # R(0)
    /\ cost_rate # R(0)

\* the take-profit trigger of the open position: raw entry + risk_per_unit
TpTrigger == RAdd(RDiv(entry_price_filled, BuyFactor), risk_per_unit_state)

\* C12: the pnl_usd of every trade record equals (units - remaining_units)
\* x (tp_trigger x (1 - cost_rate) - entry_price) + remaining_units x
\* (exit_price - entry_price) over the recorded fills, the first term being
\* zero when partial_taken is false.
C12_PnlReconstruction ==
    [][FullExit =>
         LET t       == Last(trades')
             partial == IF t.partial_taken
                        THEN RMul(RSub(t.units, t.remaining_units),
                                  RSub(RMul(TpTrigger, SellFactor),
                                       t.entry_price))
                        ELSE R(0)
         IN  /\ t.pnl_usd =
                    RAdd(partial,
                         RMul(t.remaining_units,
                              RSub(t.exit_price, t.entry_price)))
             /\ ~t.partial_taken => t.units = t.remaining_units
      ]_vars

\* a position that took the partial at a cost is closed at the close
W_C12 ==
    /\ Holding /\ ~StopCond /\ PermCond
    /\ partial_taken /\ RLt(remaining_units, units)
    /\ cost_rate # R(0)

\* C13: at the end of every bar the recorded equity is cash +
\* remaining_units x the bar's close when a position is open and the close
\* is finite, and cash when flat; also on the bar that opened the position
\* and on the bar of the take-profit partial.
C13_MarkToMarket ==
    [][pc = "body" =>
         Last(equity_records').equity =
             IF ~in_position' THEN cash'
             ELSE IF isfinite(row.close)
                  THEN RAdd(cash', RMul(remaining_units', row.close))
                  ELSE Last(equity_records').equity
      ]_vars

\* C14: over the life of a position remaining_units never increases from
\* one bar to the next: it starts at the initial unit count and only
\* decreases, at the take-profit partial, until the position is closed.
C14_RemainingNonIncreasing ==
    [][/\ (Flat /\ in_position') => remaining_units' = units'
       /\ (Holding /\ in_position') =>
            /\ units' = units
            /\ RLe(remaining_units', remaining_units)
            /\ RLt(remaining_units', remaining_units) =>
                   (~partial_taken /\ partial_taken')
            /\ RLt(R(0), remaining_units')
      ]_vars

\* a halved position is carried over a bar that exits nothing
W_C14 ==
    /\ Holding /\ ~ExitDue
    /\ partial_taken /\ RLt(remaining_units, units)

\* the timestamps iterated so far are strictly increasing
StrictlyIncreasing(s) == \A i \in 1..(Len(s) - 1) : s[i] < s[i + 1]

\* C15: for bars with strictly increasing timestamps every trade record's
\* exit_time is strictly later than its entry_time: a position is never
\* opened and fully closed on the same bar.
C15_ExitAfterEntry ==
    [][/\ StrictlyIncreasing(index') =>
            \A i \in 1..Len(trades') :
                trades'[i].entry_time < trades'[i].exit_time
       /\ Flat => trades' = trades
      ]_vars

\* a position closed on the bar right after its entry bar
W_C15 ==
    \E i \in 1..Len(trades) :
        trades[i].exit_time = trades[i].entry_time + 1

\* C16: the r_multiple of every trade record is pnl_usd / (initial units x
\* the risk_per_unit captured at entry) when that denominator is finite and
\* > 0, and NaN otherwise; the denominator is untouched by the partial and
\* by the stop ratchet.
C16_RMultiple ==
    [][/\ FullExit =>
            LET t     == Last(trades')
                denom == RMul(units, risk_per_unit_state)
            IN  /\ t.units = units
                /\ t.r_multiple =
                       IF isfinite(denom) /\ RLt(R(0), denom)
                       THEN RDiv(t.pnl_usd, denom) ELSE NaN
       /\ (Flat /\ in_position') =>
            /\ units' = SizedUnits
            /\ risk_per_unit_state' = row.risk_per_unit
       /\ (Holding /\ in_position') =>
            /\ units' = units
            /\ risk_per_unit_state' = risk_per_unit_state
      ]_vars

\* a full exit of a halved position whose stop has been ratcheted up
W_C16 ==
    /\ Holding /\ StopCond
    /\ partial_taken /\ remaining_units # units
    /\ RLt(R(95), CurStop)

\* C18: a frame that lacks any of the required columns makes run_simulation
\* raise before any bar is processed: no bar is iterated, no trade record
\* and no equity point is produced.
C18_MissingColumn ==
    (\E c \in {"high", "low", "close", "entry_long", "entry_price",
               "stop_price", "risk_per_unit", "can_trade",
               "risk_multiplier", "ema_fast_4h", "vol_regime"} :
         c \notin columns) =>
        /\ pc \in {"check", "raised"}
        /\ index = <<>>
        /\ trades = <<>>
        /\ equity_records = <<>>

\* the check has raised on a frame without its vol_regime column
W_C18 == pc = "raised" /\ "vol_regime" \notin columns

\* C19: run_simulation called with initial_cash <= 0 raises before the
\* first bar is processed and returns no trade ledger and no equity series.
C19_NonPositiveCash ==
    RLe(initial_cash, R(0)) =>
        /\ equity_records = <<>>
        /\ trades = <<>>
        /\ pc \notin {"done", "job_done"}

\* C20: a backtest that completes with zero trades fails in the trade
\* metrics: compute_trade_metrics raises on an empty ledger, and the result
\* of run_backtest_job never carries an empty trade_metrics.
C20_NoSilentEmptyMetrics ==
    /\ raised(compute_trade_metrics(<<>>))
    /\ pc = "job_done" => (trades # <<>> /\ DOMAIN trade_metrics # {})

\* C21: while a position is open and the partial take-profit has been
\* taken, the stop never decreases from one bar to the next: each ratchet
\* sets stop = max(current stop, fast EMA), so an EMA below the current stop
\* leaves it where it is.
C21_StopNonDecreasing ==
    [][(Holding /\ in_position' /\ partial_taken') =>
         /\ isfinite(stop_price_state) =>
                /\ isfinite(stop_price_state')
                /\ RLe(stop_price_state, stop_price_state')
         /\ stop_price_state' =
                IF ~isfinite(row.ema_fast_4h) THEN stop_price_state
                ELSE IF ~isfinite(stop_price_state) THEN row.ema_fast_4h
                ELSE IF RLt(stop_price_state, row.ema_fast_4h)
                     THEN row.ema_fast_4h ELSE stop_price_state
      ]_vars

\* after the partial, a bar that exits nothing brings an EMA below the stop
W_C21 ==
    /\ Holding /\ partial_taken /\ ~ExitDue
    /\ isfinite(stop_price_state)
    /\ RLt(row.ema_fast_4h, stop_price_state)

\* C22: when the partial take-profit fires, the stop of the remaining
\* position is moved to breakeven, the entry price of the position (its
\* quoted price or its fill).
C22_StopToBreakeven ==
    [][(Holding /\ ~StopCond /\ TpCond) =>
         stop_price_state' \in {entry_price_filled,
                                RDiv(entry_price_filled, BuyFactor)}
      ]_vars

\* the trend_ok of every 4H bar is the bias of the daily candle of the day
\* before, where the daily frame has that candle
PreviousDayBias ==
    (pc = "returned" /\ mode = "trend") =>
        \A t \in DOMAIN call_result :
            LET bias == call_args.df_1d.long_bias_1d
                prev == DayStamp(DayOf(t) - 1)
            IN  prev \in DOMAIN bias => call_result[t] = obj(bias[prev])

\* daily frames with the same days and the same biases before the day of a
\* 4H bar give that bar the same trend_ok
OnlyEarlierDays ==
    (pc = "returned" /\ mode = "trend") =>
        \A t \in DOMAIN call_result :
            \A other \in BiasSeries :
                LET bias == call_args.df_1d.long_bias_1d
                IN  (/\ DOMAIN other = DOMAIN bias
                     /\ \A u \in DOMAIN bias :
                            u < DayStamp(DayOf(t)) => other[u] = bias[u])
                    => trend_ok_of({t}, other)[t] = call_result[t]

\* C23: add_trend_ok_to_execution has no lookahead: the trend_ok of a 4H
\* bar inside day D is the long_bias_1d of the daily candle of day D-1, so
\* changing the daily candle of day D or of a later day never changes the
\* trend_ok of a 4H bar inside day D.
C23_NoLookahead == PreviousDayBias /\ OnlyEarlierDays

\* C24: on a bar where the take-profit partial fires no full exit happens,
\* even with can_trade false or bars_held at the hold limit: the position
\* stays open, bars_held grows by 1, no trade record is appended, and the
\* permission and time conditions are first acted on by the next bar.
C24_NoExitOnPartialBar ==
    [][/\ (Holding /\ ~StopCond /\ TpCond) =>
            /\ in_position'
            /\ partial_taken'
            /\ bars_held' = bars_held + 1
            /\ trades' = trades
       /\ (Holding /\ partial_taken /\ (PermCond \/ TimeCond)) => FullExit
      ]_vars

\* the partial fires on a bar that also revokes permission at the hold limit
W_C24 == Holding /\ ~StopCond /\ TpCond /\ PermCond /\ TimeCond

\* the stop the exit checks of the fetched row must use once the partial
\* has been taken
RatchetedStop ==
    IF ~isfinite(row.ema_fast_4h) THEN stop_price_state
    ELSE IF ~isfinite(stop_price_state) THEN row.ema_fast_4h
    ELSE IF RLt(stop_price_state, row.ema_fast_4h) THEN row.ema_fast_4h
    ELSE stop_price_state

\* C25: on every bar after the partial take-profit, while the position is
\* open, the stop is first ratcheted to max(current stop, the bar's fast
\* EMA) when the EMA is finite, and only then the exit checks run: the STOP
\* test and the STOP fill of that bar use the ratcheted stop.
C25_RatchetBeforeChecks ==
    [][(Holding /\ partial_taken) =>
         LET hit == /\ isfinite(row.low) /\ isfinite(RatchetedStop)
                    /\ RLe(row.low, RatchetedStop)
         IN  /\ hit => /\ Closed("STOP")
                       /\ Last(trades').exit_price =
                              RMul(RatchetedStop, SellFactor)
             /\ ~hit => ~Closed("STOP")
             /\ in_position' => stop_price_state' = RatchetedStop
      ]_vars

\* the low of the bar is above the old stop and at or below the EMA
W_C25 ==
    /\ Holding /\ partial_taken
    /\ RLt(stop_price_state, row.low)
    /\ RLe(row.low, row.ema_fast_4h)

\* C26: the take-profit trigger of a position is set once, at entry, to the
\* raw entry price + 1.0 x risk_per_unit (the quoted price, not the fill),
\* and no later bar, partial exit or stop ratchet changes it until the
\* position is closed.
C26_TriggerFixedAtEntry ==
    [][/\ (Flat /\ in_position') =>
            tp1_price' = RAdd(row.entry_price, row.risk_per_unit)
       /\ (Holding /\ in_position') =>
            /\ tp1_price' = tp1_price
            /\ tp1_price = TpTrigger
      ]_vars

\* a position entered at a cost is carried over the bar of its partial
W_C26 ==
    /\ Holding /\ ~StopCond /\ TpCond
    /\ isfinite(row.ema_fast_4h)
    /\ cost_rate # R(0)

\* the sum of pnl_usd over the first n records of the ledger
RECURSIVE SumPnl(_, _)
SumPnl(ledger, n) ==
    IF n = 0 THEN R(0) ELSE RAdd(SumPnl(ledger, n - 1), ledger[n].pnl_usd)

\* the cash held just before the entry of the i-th trade: the account is
\* flat, and its cash unchanged, between an exit and the next entry
CashBeforeEntry(i) ==
    IF i = 1 THEN initial_cash ELSE trades[i - 1].cash_after

\* C27: cash reconciles across trades: the cash_after of every trade record
\* is the cash held just before that trade's entry + its pnl_usd, and when
\* the account is flat cash = initial_cash + the sum of pnl_usd over all
\* trade records so far.
C27_CashReconciles ==
    /\ \A i \in 1..Len(trades) :
           trades[i].cash_after =
               RAdd(CashBeforeEntry(i), trades[i].pnl_usd)
    /\ ~in_position =>
           cash = RAdd(initial_cash, SumPnl(trades, Len(trades)))

\* flat again after a trade that took its partial, with costs charged
W_C27 ==
    /\ pc = "loop" /\ ~in_position
    /\ cost_rate # R(0)
    /\ \E i \in 1..Len(trades) :
           trades[i].partial_taken /\ trades[i].pnl_usd # R(0)

\* the fetched row carries an entry candidate that passes the validity checks
GoodEntryRow ==
    /\ row.entry_long
    /\ RLt(R(0), row.entry_price)
    /\ RLt(R(0), row.risk_per_unit)
    /\ RLt(R(0), row.risk_multiplier)

\* C28: a bar makes at most one position transition: the bar that opens a
\* position evaluates no exit condition, the stop included, and a bar with
\* a full exit makes no new entry even with entry_long true; the earliest
\* re-entry is the bar after the exit bar.
C28_OneTransitionPerBar ==
    [][/\ (Flat /\ row.entry_long /\ ~BadEntry) => in_position'
       /\ (Flat /\ in_position') =>
            /\ trades' = trades
            /\ remaining_units' = units'
            /\ ~partial_taken'
            /\ bars_held' = 0
            /\ entry_time' = ts
       /\ Flat => trades' = trades
       /\ FullExit => (~in_position' /\ entry_time' = NoTime)
       /\ in_position' =>
            \A i \in 1..Len(trades') : trades'[i].exit_time < entry_time'
      ]_vars

\* a full exit is due on a row that carries a valid entry candidate
W_C28 == Holding /\ ExitDue /\ GoodEntryRow /\ RLt(R(0), cash)

C30_PartialAtMostOnce ==
    /\ in_position =>
           /\ RLt(R(0), remaining_units)
           /\ remaining_units =
                  IF partial_taken THEN RMul(units, Q(1, 2)) ELSE units
    /\ \A i \in 1..Len(trades) :
           /\ RLt(R(0), trades[i].remaining_units)
           /\ trades[i].remaining_units =
                  IF trades[i].partial_taken
                  THEN RMul(trades[i].units, Q(1, 2)) ELSE trades[i].units

\* the trigger is touched again after the partial has been taken
W_C30 ==
    /\ Holding /\ partial_taken /\ ~StopCond
    /\ RLe(tp1_price, row.high)

\* C31: while a position is open and the partial take-profit has not been
\* taken, the stop stays equal to the stop_price supplied by the entry bar:
\* the fast EMA never moves the stop before the partial.
C31_StopFixedBeforePartial ==
    [][/\ (Flat /\ in_position') =>
            stop_price_state' = to_float(row.stop_price)
       /\ (Holding /\ ~partial_taken /\ in_position' /\ ~partial_taken') =>
            stop_price_state' = stop_price_state
       /\ (Holding /\ ~partial_taken) =>
            (Closed("STOP") <=>
                 (/\ isfinite(row.low) /\ isfinite(stop_price_state)
                  /\ RLe(row.low, stop_price_state)))
      ]_vars

\* before the partial, a bar that neither exits nor sells brings an EMA
\* above the stop
W_C31 ==
    /\ Holding /\ ~partial_taken /\ ~ExitDue /\ ~TpCond
    /\ RLt(stop_price_state, row.ema_fast_4h)

\* C32: a position still open when the bars run out yields no trade
\* record: a record is appended by a full exit and by nothing else, so the
\* records number the accepted entries or one less; and the equity point of
\* a bar that ends with the position open, the last bar included, is the
\* mark-to-market value cash + remaining_units x close, not cash.
C32_OpenAtEnd ==
    [][/\ (pc = "loop" /\ pc' \in {"done", "raised"}) => trades' = trades
       /\ Flat => trades' = trades
       /\ Holding =>
            Len(trades') = Len(trades) + (IF in_position' THEN 0 ELSE 1)
       /\ (pc = "body" /\ in_position' /\ isfinite(row.close)) =>
            Last(equity_records').equity =
                RAdd(cash', RMul(remaining_units', row.close))
      ]_vars

----------------------------------------------------------------------------
(* Properties of the data layer.                                           *)

\* the timestamps of rows are unique and strictly increasing
StampsIncreasing(rows) ==
    \A i, j \in 1..Len(rows) : i < j => rows[i].timestamp < rows[j].timestamp

\* the candle of row r is possible
PossibleCandle(r) ==
    /\ RGe(r.high, r.low)
    /\ RGe(r.high, r.open) /\ RGe(r.open, r.low)
    /\ RGe(r.high, r.close) /\ RGe(r.close, r.low)
    /\ RGe(r.volume, R(0))
    /\ \A col \in {"open", "high", "low", "close"} : RGe(r[col], R(0))

\* df has one of the defects validate_ohlcv is to reject
Defective(df) ==
    \/ \E i, j \in 1..Len(df.rows) :
           i < j /\ df.rows[i].timestamp >= df.rows[j].timestamp
    \/ ~(ohlcv_columns \subseteq df.columns)
    \/ df.objects \cap ohlcv_columns # {}
    \/ \E i \in 1..Len(df.rows) :
           \/ \E col \in ohlcv_columns : ~isfinite(df.rows[i][col])
           \/ ~PossibleCandle(df.rows[i])

\* C36: every frame validate_ohlcv accepts has unique, strictly increasing
\* timestamps and only possible candles (high >= low, open and close within
\* [low, high], volume >= 0, prices >= 0), and a frame with a duplicate or
\* out-of-order timestamp, a missing or non-numeric OHLCV column, a NaN
\* value or an impossible candle is rejected with an error.
C36_ValidatedFrames ==
    (mode = "validate" /\ pc # "call") =>
        /\ pc = "returned" =>
               /\ ~raised(call_result)
               /\ StampsIncreasing(call_result.rows)
               /\ \A i \in 1..Len(call_result.rows) :
                      PossibleCandle(call_result.rows[i])
               /\ call_result.rows = call_args.df.rows
        /\ Defective(call_args.df) => (pc = "raised" /\ raised(call_result))

W_C36 ==
    /\ mode = "validate"
    /\ pc = "returned"
    /\ Len(call_result.rows) = 2
    /\ call_result.rows[1].close # call_result.rows[2].close

\* the row of frame df at timestamp t
RowAt(df, t) ==
    df.rows[CHOOSE i \in 1..Len(df.rows) : df.rows[i].timestamp = t]

StampsOf(df) == {df.rows[i].timestamp : i \in 1..Len(df.rows)}

\* df passes the checks validate_ohlcv makes on a frame of few rows
WellFormed(df) ==
    /\ ohlcv_columns \subseteq df.columns
    /\ df.objects \cap ohlcv_columns = {}
    /\ df.index = "DatetimeIndex"
    /\ ~Defective(df)

\* C33: merge_ohlcv returns a frame with unique, strictly increasing
\* timestamps that holds every timestamp of old_df and new_df and no other;
\* at a timestamp of new_df it holds new_df's row, elsewhere old_df's; with
\* old_df None it returns new_df; and when new_df or old_df fails validation
\* it raises and returns nothing.
C33_MergeResult ==
    (mode = "merge" /\ pc # "call") =>
        LET old_df == call_args.old_df
            new_df == call_args.new_df
            valid  == WellFormed(new_df) /\ (is_none(old_df) \/ WellFormed(old_df))
        IN  /\ (pc = "raised") <=> ~valid
            /\ (pc = "raised") <=> raised(call_result)
            /\ (pc = "returned" /\ is_none(old_df)) => call_result = new_df
            /\ (pc = "returned" /\ ~is_none(old_df)) =>
                   /\ StampsIncreasing(call_result.rows)
                   /\ StampsOf(call_result) = StampsOf(old_df) \cup StampsOf(new_df)
                   /\ \A t \in StampsOf(new_df) :
                          RowAt(call_result, t) = RowAt(new_df, t)
                   /\ \A t \in StampsOf(old_df) \ StampsOf(new_df) :
                          RowAt(call_result, t) = RowAt(old_df, t)

W_C33 ==
    /\ mode = "merge"
    /\ pc = "returned"
    /\ ~is_none(call_args.old_df)
    /\ \E t \in StampsOf(call_args.old_df) \cap StampsOf(call_args.new_df) :
           /\ RowAt(call_args.old_df, t) # RowAt(call_args.new_df, t)
           /\ RowAt(call_result, t) = RowAt(call_args.new_df, t)
    /\ StampsOf(call_args.old_df) \ StampsOf(call_args.new_df) # {}
    /\ StampsOf(call_args.new_df) \ StampsOf(call_args.old_df) # {}

\* C34: upsert_ohlcv is idempotent on the stored data: an upsert of the
\* new_df of the upsert that just returned returns again and leaves the
\* stored file as it was, so its length does not grow; and after every
\* upsert the stored series has unique, strictly increasing timestamps.
C34_UpsertIdempotent ==
    [][mode = "upsert" =>
         /\ (pc = "returned" /\ call_args'.new_df = call_args.new_df) =>
                /\ pc' = "returned"
                /\ ohlcv_csv' = ohlcv_csv
                /\ Len(ohlcv_csv'.lines) = Len(ohlcv_csv.lines)
         /\ pc' = "returned" =>
                /\ StampsIncreasing(ohlcv_csv'.lines)
                /\ StampsOf(call_args'.new_df)
                       \subseteq {ohlcv_csv'.lines[i].timestamp :
                                     i \in 1..Len(ohlcv_csv'.lines)}
         /\ pc' = "raised" => ohlcv_csv' = ohlcv_csv
      ]_vars

W_C34 ==
    /\ mode = "upsert"
    /\ pc = "returned"
    /\ Len(ohlcv_csv.lines) > Len(call_args.new_df.rows)
    /\ Len(call_args.new_df.rows) > 0
    /\ "atr_14" \in call_args.new_df.columns
    /\ ohlcv_csv = upsert_ohlcv(ohlcv_csv, call_args.new_df, "4h").file

----------------------------------------------------------------------------
(* Properties of the entry signals.                                        *)

\* C35: after add_entry_signals every bar with entry_long true has
\* can_trade true and entry_price equal to its own close, and every bar with
\* entry_long false has the entry_price NaN; so no bar on which
\* run_simulation may open a position (entry_long true) has can_trade false.
C35_EntryNeedsPermission ==
    (mode = "signals" /\ pc = "returned") =>
        /\ Len(call_result) = Len(call_args.df_4h)
        /\ \A i \in 1..Len(call_result) :
               LET bar == call_result[i]
               IN  /\ bar.can_trade = call_args.df_4h[i].can_trade
                   /\ bar.close = call_args.df_4h[i].close
                   /\ bar.entry_long =>
                          /\ bar.can_trade = "True"
                          /\ bar.entry_price = call_args.df_4h[i].close
                   /\ ~bar.entry_long => bar.entry_price = NaN

W_C35 ==
    /\ mode = "signals"
    /\ pc = "returned"
    /\ Len(call_result) = 2
    /\ call_result[1].entry_long
    /\ ~call_result[2].entry_long
    /\ call_args.df_4h[2].can_trade = "False"
    /\ entry_long_cond_ungated(call_args.df_4h[2]) = "True"

====
